---- MODULE Spec2Model ----
(***************************************************************************)
(* A model of esi_requests: the endpoint health cache                      *)
(* (checker.ESIEndpointChecker), the validation pipeline                   *)
(* (checker.ESIRequestChecker with its memoizing decorator), the fallback  *)
(* response hook (checker.FakeResponseGenerator) and the dispatch engine   *)
(* (sessions.Session).                                                     *)
(*                                                                         *)
(* Python values are written as strings ("True", "False", "None"), an      *)
(* optional value as a sequence of length 0 or 1, time in seconds.         *)
(***************************************************************************)
EXTENDS Integers, Sequences, FiniteSets, TLC

VARIABLES
    now,            \* time(), in seconds
    status_parsed,  \* ESIEndpointChecker.status_parsed: <<>> (None) or <<map>>
    fd_mode,        \* mode ESIEndpointChecker.fd was opened with: "w" or "r"
    fd_file,        \* content of data/status.json: the documents written to it, in order
    fd_mtime,       \* modification time of data/status.json
    fetchLog,       \* history: the last two health calls that fetched status.json
    lastHealth,     \* history: the health call made last
    raise_flag,     \* ESIRequestChecker.raise_flag, shared by all calls
    cache,          \* ESIRequestChecker.cache: key -> <<>> or <<[value, expires]>>
    call,           \* the calls of ESIRequestChecker.__call__ in progress: their locals
    done,           \* history: the direct call of the checker that finished last
    async_session,  \* Session.__async_session: "None" or "ClientSession"
    pools,          \* history: how many connection pools were created
    etag_cache,     \* Session.__etag_cache: url -> <<>> or <<entry>>
    hookReady,      \* what the installed fallback hook's ready() answers
    issue,          \* the call of Session.issue: where it is and what it gave
    task,           \* the tasks of issue_one_request, one per request
    completed,      \* history: the tasks in the order they finished
    preps           \* history: the request prepare_request prepared last

healthVars == <<status_parsed, fd_mode, fd_file, fd_mtime, fetchLog, lastHealth>>

checkerVars == <<raise_flag, cache, call, done>>

sessionVars ==
    <<async_session, pools, etag_cache, hookReady, issue, task, completed, preps>>

vars == <<now, status_parsed, fd_mode, fd_file, fd_mtime, fetchLog, lastHealth,
          raise_flag, cache, call, done,
          async_session, pools, etag_cache, hookReady, issue, task, completed, preps>>

----------------------------------------------------------------------------
(* Bounds of the model                                                     *)

HealthHorizon == 125

MaxFileDocs == 2

MaxCalls == 2

NReq == 2

MaxLookups == 4

\* Calls of Session.issue made on one session, one after the other.
MaxIssues == 2

(* Program constants                                                       *)

RefreshInterval == 60

Attempts == 3

NoneId == 0

CheckExpires == 24 * 3600 * 30

None == <<>>

Some(x) == <<x>>

----------------------------------------------------------------------------
(* Endpoints and the remote status document                                *)

\* "/t/" and "/d/" declare type_id required, "/o/" optional, "/n/" not at all.
Endpoints == {"/t/", "/o/", "/d/", "/n/"}

Entry(r, s) == [route |-> r, status |-> s]

\* What GET status.json may answer: a list of {route, status} entries.
StatusDocs ==
    { <<>>,
      <<Entry("/t/", "green"), Entry("/o/", "green"), Entry("/n/", "green")>>,
      <<Entry("/t/", "red"), Entry("/o/", "green"), Entry("/n/", "yellow")>>,
      <<Entry("/o/", "green")>> }

\* The status file the checker starts from: "/d/" is down.
LoadedStatus ==
    <<Entry("/t/", "green"), Entry("/o/", "green"), Entry("/n/", "green"),
      Entry("/d/", "red")>>

\* The outcomes of requests.get(target_url): a document, or a transport error.
FetchFailed == "ConnectionError"

Fetches == {[ok |-> TRUE, doc |-> d] : d \in StatusDocs}
               \cup {[ok |-> FALSE, doc |-> <<>>]}

NoFetch == [ok |-> FALSE, doc |-> <<>>]

\* ESIEndpointChecker._parse_status_json: a dict comprehension, the last entry
\* of a route wins.
ParseStatusJson(status) ==
    [r \in {status[i].route : i \in DOMAIN status} |->
        LET last == CHOOSE i \in DOMAIN status :
                        /\ status[i].route = r
                        /\ \A j \in DOMAIN status : status[j].route = r => j <= i
        IN  status[last].status = "green"]

EmptyMap == ParseStatusJson(<<>>)

\* A variant of fd_expired that drops the refresh interval: the file is
\* expired as soon as it is older than the clock.
FdExpiredAtOnce ==
    \/ status_parsed = None
    \/ DOMAIN status_parsed[1] = {}
    \/ now - fd_mtime > 0

\* ESIEndpointChecker.fd_expired
FdExpired ==
    \/ status_parsed = None
    \/ DOMAIN status_parsed[1] = {}
    \/ fd_mtime - now > RefreshInterval

\* dict.get(endpoint, False) on the parsed map
StatusGet(m, endpoint) == IF endpoint \in DOMAIN m THEN m[endpoint] ELSE FALSE

\* ESIEndpointChecker.__call__(endpoint) with the remote answering f (read only
\* when the map is expired).  The result: what the call returns or raises and
\* the state it leaves.
EndpointCall(endpoint, f) ==
    IF ~FdExpired
    THEN [raised |-> "", ret |-> StatusGet(status_parsed[1], endpoint), fetched |-> FALSE,
          sp |-> status_parsed, file |-> fd_file, mtime |-> fd_mtime]
    ELSE IF ~f.ok
    THEN [raised |-> FetchFailed, ret |-> FALSE, fetched |-> TRUE,
          sp |-> status_parsed, file |-> fd_file, mtime |-> fd_mtime]
    ELSE LET parsed == ParseStatusJson(f.doc) IN
         IF fd_mode = "r"
         THEN [raised |-> "UnsupportedOperation", ret |-> FALSE, fetched |-> TRUE,
               sp |-> Some(parsed), file |-> fd_file, mtime |-> fd_mtime]
         ELSE [raised |-> "", ret |-> StatusGet(parsed, endpoint), fetched |-> TRUE,
               sp |-> Some(parsed), file |-> Append(fd_file, parsed), mtime |-> now]

\* The remote answers a call may meet.
FetchChoices == IF FdExpired THEN Fetches ELSE {NoFetch}

IsEmpty(sp) == sp = None \/ DOMAIN sp[1] = {}

\* Seconds since the map in use was loaded from the file or fetched.
MapAge ==
    IF fetchLog = <<>> THEN now - fd_mtime ELSE now - fetchLog[Len(fetchLog)].at

\* What is recorded of a health call: whether the map was empty, or older
\* than the refresh interval, when it was made; whether it fetched, whether
\* the fetch failed, what it raised, and whether it left map and file alone.
NoHealthCall ==
    [called |-> FALSE, empty |-> FALSE, stale |-> FALSE, fetched |-> FALSE,
     failed |-> FALSE, raised |-> "", kept |-> TRUE]

HealthOutcome(h) ==
    [called |-> TRUE,
     empty |-> IsEmpty(status_parsed),
     stale |-> ~IsEmpty(status_parsed) /\ MapAge > RefreshInterval,
     fetched |-> h.fetched,
     failed |-> h.raised = FetchFailed,
     raised |-> h.raised,
     kept |-> h.sp = status_parsed /\ h.file = fd_file]

\* The effect of one ESIEndpointChecker call on the checker and on the history.
ApplyEndpointCall(endpoint, h) ==
    /\ Len(h.file) <= MaxFileDocs
    /\ lastHealth' = HealthOutcome(h)
    /\ status_parsed' = h.sp
    /\ fd_file' = h.file
    /\ fd_mtime' = h.mtime
    /\ fd_mode' = fd_mode
    /\ fetchLog' = IF h.fetched
                   THEN LET rec == [at |-> now, empty |-> IsEmpty(h.sp), reused |-> FALSE]
                        IN  IF fetchLog = <<>> THEN <<rec>>
                            ELSE <<fetchLog[Len(fetchLog)], rec>>
                   ELSE IF /\ fetchLog # <<>>
                           /\ now > fetchLog[Len(fetchLog)].at
                           /\ now - fetchLog[Len(fetchLog)].at < RefreshInterval
                   THEN [fetchLog EXCEPT ![Len(fetchLog)].reused = TRUE]
                   ELSE fetchLog

----------------------------------------------------------------------------
(* The validation pipeline: ESIRequestChecker                              *)

Calls == 1..(IF MaxCalls > NReq THEN MaxCalls ELSE NReq)

TypeIds == {1, 2}

\* invTypes, the static reference data: typeID -> published.  1 is published,
\* 2 is a member that is not published, None is no member.
invTypes == [id \in {1, 2} |-> id = 1]

\* metadata.parameters of an endpoint: how it declares type_id.
MetadataTypeId(endpoint) ==
    CASE endpoint \in {"/t/", "/d/"} -> "required"
      [] endpoint = "/o/" -> "optional"
      [] OTHER -> "undeclared"

\* A request as the checker reads it: endpoint, kwargs["type_id"] and
\* params["type_id"] (NoneId when the key is absent).
Request(p, u, e, k, q) ==
    [prepared |-> p, url |-> u, endpoint |-> e, kwargs |-> k, params |-> q]

PyBool(b) == IF b THEN "True" ELSE "False"

\* make_cache_key(check_type_id, type_id)
make_cache_key(type_id) == type_id

CacheKeys == {NoneId} \cup TypeIds

\* SqliteCache.get(key): the stored value until it expires, else None
CacheGet(c, key) ==
    IF c[key] # None /\ now < c[key][1].expires THEN c[key][1].value ELSE "None"

\* SqliteCache.set(key, value, expires)
CacheSet(c, key, value, expires) ==
    [c EXCEPT ![key] = Some([value |-> value, expires |-> now + expires])]

\* The result cached for a key less than 30 days ago, if there is one.
CachedResult(c, key) ==
    IF c[key] # None /\ now < c[key][1].expires THEN Some(c[key][1].value) ELSE None

\* A call that has not been made.
IdleCall ==
    [pc |-> "idle", req |-> Request(TRUE, "", "", NoneId, NoneId), flag |-> FALSE,
     health |-> "", checked |-> FALSE, seen |-> None, bodyRan |-> FALSE,
     valid |-> "", attempts |-> 0, tried |-> 0, out |-> "", value |-> ""]

\* What is recorded of a finished call: its arguments, what the endpoint
\* checker answered, whether check_type_id was invoked, the cached result it
\* found, whether its body ran and looked the type up remotely, whether the
\* remote answered 502 to each of the confirming attempts, what the decorated
\* check_type_id returned, and what the call returned or raised.
Outcome(c) ==
    [pc |-> c.pc, req |-> c.req, flag |-> c.flag, health |-> c.health,
     checked |-> c.checked, seen |-> c.seen, bodyRan |-> c.bodyRan,
     looked |-> c.tried > 0, all502 |-> (c.tried = Attempts /\ c.attempts = 0),
     valid |-> c.valid, out |-> c.out, value |-> c.value]

\* The end of __check_request (lines 159-167): what the call returns or
\* raises, given the verdict, the error and self.raise_flag as it is then.
Finish(c, valid, error, rf) ==
    IF valid # "True"
    THEN IF rf = TRUE /\ error # ""
         THEN [c EXCEPT !.pc = "done", !.out = "raise", !.value = error]
         ELSE [c EXCEPT !.pc = "done", !.out = "return", !.value = PyBool(rf)]
    ELSE [c EXCEPT !.pc = "done", !.out = "return", !.value = valid]

\* Lines 155-156: a falsy verdict of the type_id check sets the error.
TypeIdError(valid) == IF valid # "True" THEN "InvalidRequestError" ELSE ""

\* Lines 141-146: kwargs first, then params.
ResolveTypeId(req) ==
    IF req.kwargs # NoneId THEN req.kwargs
    ELSE IF req.params # NoneId THEN req.params
    ELSE NoneId

\* A variant of lines 180-184 that tests membership only.
StaticValidMember(type_id) == type_id \in DOMAIN invTypes

\* Lines 180-184: the reference-data verdict.
StaticValid(type_id) == type_id \in DOMAIN invTypes /\ invTypes[type_id]

\* A variant of lines 149-154 that checks every declared type_id, absent or not.
NeedsCheckDeclared(req) == MetadataTypeId(req.endpoint) # "undeclared"

\* Lines 149-154: whether check_type_id is invoked once the endpoint is healthy.
NeedsCheck(req) ==
    /\ MetadataTypeId(req.endpoint) # "undeclared"
    /\ ~(ResolveTypeId(req) = NoneId /\ MetadataTypeId(req.endpoint) # "required")

\* A variant of line 140 that runs the parameter checks whatever the health.
RunsParamChecksAlways(healthy) == TRUE

\* Line 140: the parameter checks run only while the request is still valid.
RunsParamChecks(healthy) == healthy

\* __call__ and __check_request up to the first suspension, for a call c with
\* its req and flag set, the health check having answered h.  The result is
\* the call's new state and the new cache and history.
CheckRequest(c, h) ==
    LET req == c.req
        type_id == ResolveTypeId(req)
        key == make_cache_key(type_id)
        c0 == [c EXCEPT !.health = IF h.raised # "" THEN "raise" ELSE PyBool(h.ret)]
        none == [cache |-> cache]
    IN
    IF h.raised # ""
    THEN [c |-> [c0 EXCEPT !.pc = "done", !.out = "raise", !.value = h.raised]] @@ none
    ELSE IF ~RunsParamChecks(h.ret)
    THEN [c |-> Finish(c0, PyBool(h.ret),
                       IF h.ret THEN "" ELSE "EndpointDownError", c.flag)] @@ none
    ELSE IF ~NeedsCheck(req)
    THEN [c |-> Finish(c0, "True",
                       IF h.ret THEN "" ELSE "EndpointDownError", c.flag)] @@ none
    ELSE LET c1 == [c0 EXCEPT !.checked = TRUE,
                              !.seen = CachedResult(cache, key)]
             hit == CacheGet(cache, key)
         IN
         IF hit # "None"
         THEN [c |-> Finish([c1 EXCEPT !.valid = hit], hit, TypeIdError(hit), c.flag)]
                  @@ none
         ELSE IF ~StaticValid(type_id)
         THEN [c |-> Finish([c1 EXCEPT !.bodyRan = TRUE, !.valid = "False"],
                            "False", TypeIdError("False"), c.flag),
               cache |-> CacheSet(cache, key, "False", CheckExpires)]
         ELSE [c |-> [c1 EXCEPT !.pc = "lookup", !.bodyRan = TRUE, !.valid = "True",
                                !.attempts = Attempts]] @@ none

\* What GET /universe/types/{type_id}/ may answer: the status and the payload's
\* "published" field (None when the payload has none).
LookupReplies ==
    { [status |-> 200, published |-> "True"],
      [status |-> 200, published |-> "False"],
      [status |-> 404, published |-> "None"],
      [status |-> 502, published |-> "None"] }

\* A variant of lines 194-201 that reads the payload of every answer.
ValidOfEveryReply(valid, r) == r.published

\* Lines 194-201: a 502 leaves the verdict as it is, any other answer sets it
\* to the payload's "published".
ValidAfterReply(valid, r) == IF r.status = 502 THEN valid ELSE r.published

\* Line 190: the loop condition of the confirming lookup.
LoopsAgain(success, attempts) == ~success /\ attempts > 0

\* Lines 190-203 for one answer of the remote, then the decorator's set and
\* the end of __check_request when the loop is left.
CheckTypeIdReply(c, r) ==
    LET key == make_cache_key(ResolveTypeId(c.req))
        attempts == IF r.status = 502 THEN c.attempts - 1 ELSE c.attempts
        success == r.status = 200
        valid == ValidAfterReply(c.valid, r)
        c1 == [c EXCEPT !.attempts = attempts, !.valid = valid, !.tried = @ + 1]
    IN
    IF LoopsAgain(success, attempts)
    THEN [c |-> c1, cache |-> cache]
    ELSE [c |-> Finish(c1, valid, TypeIdError(valid), raise_flag),
          cache |-> CacheSet(cache, key, valid, CheckExpires)]

\* ESIEndpointChecker.__init__: a missing or empty file is opened for writing
\* and leaves no map; an existing file (here: holding one of docs, parsed) is
\* opened for reading and loaded.
InitLoaded(docs) ==
    \E d \in docs :
       /\ fd_mode = "r"
       /\ fd_file = <<ParseStatusJson(d)>>
       /\ status_parsed = Some(ParseStatusJson(d))

InitFile(docs) ==
    \/ /\ fd_mode = "w"
       /\ fd_file = <<>>
       /\ status_parsed = None
    \/ InitLoaded(docs)

InitCheckerIdle ==
    /\ raise_flag = FALSE
    /\ cache = [k \in CacheKeys |-> None]
    /\ call = [t \in Calls |-> IdleCall]
    /\ done = Outcome(IdleCall)

----------------------------------------------------------------------------
(* The dispatch engine: Session                                            *)

URLs == {"u1", "u2"}

Tasks == 1..NReq

\* ESIResponse as build_response fills it: status, the ETag and Expires
\* headers ("" when absent), url and request_info (the index of the request).
Response(status, etag, expires, url, request_info) ==
    [status |-> status, etag |-> etag, expires |-> expires, url |-> url,
     request_info |-> request_info]

NoResponse == Response(0, "", "", "", 0)

\* ESIResponse.ok
ok(resp) == resp.status >= 200 /\ resp.status < 300

\* A response cached by an earlier session, for a request that is not of this batch.
PriorResponse(url) == Response(200, "v1", "", url, 0)

\* _ETagCacheEntry
ETagCacheEntry(etag, response, expires) ==
    [etag |-> etag, response |-> response, expires |-> expires]

\* ETagCache.get(url): the entry or None
ETagGet(c, url) == c[url]

\* ETagCache.set(url, etag, response, expires)
ETagSet(c, url, etag, response, expires) ==
    [c EXCEPT ![url] = Some(ETagCacheEntry(etag, response, expires))]

\* Session.cache_response(resp): lines 204-208, the cache after it
cache_response(c, resp) ==
    ETagSet(c, resp.url,
            IF resp.etag = "" THEN "*" ELSE resp.etag,
            resp,
            IF resp.expires = "" THEN "86400" ELSE resp.expires)

\* What the transport may answer to a sent request: status, headers, resolved url.
Reply(status, etag, expires, url) ==
    [status |-> status, etag |-> etag, expires |-> expires, url |-> url]

Replies(req) ==
    { Reply(200, "v2", "Tue", req.url),
      Reply(200, "", "", CHOOSE u \in URLs : u # req.url),
      Reply(404, "", "", req.url),
      Reply(304, "", "", req.url) }

\* Session.build_response(request, r) for the request of task t
build_response(t, r) == Response(r.status, r.etag, r.expires, r.url, t)

NoResult == [kind |-> "", err |-> "", resp |-> NoResponse]

Returned(resp) == [kind |-> "return", err |-> "", resp |-> resp]

Raised(err) == [kind |-> "raise", err |-> err, resp |-> NoResponse]

\* A task: where it is, whether ready() was asked, how many requests it sent,
\* the status the transport answered (0: none yet), what the cache lookup on a
\* 304 found, how many cache writes it made, and its result.
NoTask ==
    [pc |-> "none", asked |-> FALSE, sends |-> 0, pool |-> 0, status |-> 0,
     line |-> "", writes |-> 0, res |-> NoResult]

\* FakeResponseGenerator.ready(request), or what a hook installed in its
\* place answers.
ready(req) == hookReady

\* Line 149: self.__request_generator.generate() is called without the
\* request that generate(self, request) requires.
generate == Raised("TypeError")

\* A variant of line 146 that substitutes without consulting the hook.
SubstitutesUnasked(valid, req) == valid # "True"

\* Line 146: the branch of issue_one_request taken on a verdict.
Substitutes(valid, req) == valid # "True" /\ ready(req)

\* issue_one_request from the verdict of the checker (finished call c) to the
\* next suspension: lines 146-153 and the guard of send (lines 176-177).
AfterValidation(tk, c) ==
    IF c.out = "raise"
    THEN [tk EXCEPT !.pc = "done", !.res = Raised(c.value)]
    ELSE LET valid == c.value
             tk1 == [tk EXCEPT !.asked = (valid # "True")]
         IN  IF Substitutes(valid, c.req)
             THEN [tk1 EXCEPT !.pc = "done", !.res = generate]
             ELSE IF ~c.req.prepared
             THEN [tk1 EXCEPT !.pc = "done", !.res = Raised("ValueError")]
             ELSE [tk1 EXCEPT !.pc = "send", !.sends = @ + 1, !.pool = pools]

\* A variant of lines 158-163 that answers a miss with an empty response.
CacheMissEmptyResponse == Returned(NoResponse)

\* Lines 158-163: a 304 for a url the cache has no entry for.
CacheMiss == Raised("NotImplementedError")

\* A variant of lines 169-170 that caches every built response.
CachesEveryResponse(resp) == TRUE

\* A variant of line 165 that answers a hit with a new, empty response.
CacheHitEmptyResponse(cache_line) == Returned(NoResponse)

\* Line 165: a 304 for a url the cache holds an entry for.
CacheHit(cache_line) == Returned(cache_line[1].response)

\* Lines 169-170: a built response is cached when it is ok.
CachesResponse(resp) == ok(resp)

\* issue_one_request from the answer r of the transport to its end: lines
\* 155-172.  The task's result and the cache it leaves.
AfterSend(t, tk0, req, r) ==
    LET tk == [tk0 EXCEPT !.status = r.status] IN
    IF r.status = 304
    THEN LET cache_line == ETagGet(etag_cache, req.url) IN
         IF cache_line = None
         THEN [tk |-> [tk EXCEPT !.pc = "done", !.line = "miss", !.res = CacheMiss],
               etag |-> etag_cache]
         ELSE [tk |-> [tk EXCEPT !.pc = "done", !.line = "hit",
                                 !.res = CacheHit(cache_line)],
               etag |-> etag_cache]
    ELSE LET resp == build_response(t, r) IN
         IF CachesResponse(resp)
         THEN [tk |-> [tk EXCEPT !.pc = "done", !.res = Returned(resp), !.writes = @ + 1],
               etag |-> cache_response(etag_cache, resp)]
         ELSE [tk |-> [tk EXCEPT !.pc = "done", !.res = Returned(resp)],
               etag |-> etag_cache]

\* A header value: a string, or (entry # None) the cache entry object itself.
HeaderStr(str) == [str |-> str, entry |-> None]

HeaderEntry(e) == [str |-> "", entry |-> Some(e)]

\* ETagCache.get(url, ""), as the value of a header
ETagGetOrEmpty(c, url) == IF c[url] = None THEN HeaderStr("") ELSE HeaderEntry(c[url][1])

\* Session.prepare_request for one request the parser returned, with the
\* If-None-Match header the caller gave (given) or none: lines 101-103.
prepare_request(url, given, own) ==
    IF given THEN HeaderStr(own) ELSE ETagGetOrEmpty(etag_cache, url)

\* What is recorded of a prepare_request: the url, whether the caller gave
\* the header, the cache line of the url then, and the header it leaves.
NoPreps == [url |-> "", given |-> FALSE, line |-> None, header |-> HeaderStr("")]

NoIssue ==
    [pc |-> "idle", round |-> 0, requests |-> <<>>, result |-> <<>>, err |-> "",
     left |-> <<>>]

InitSessionIdle ==
    /\ async_session = "None"
    /\ pools = 0
    /\ etag_cache = [u \in URLs |-> None]
    /\ hookReady = FALSE
    /\ issue = NoIssue
    /\ task = [t \in Tasks |-> NoTask]
    /\ completed = <<>>
    /\ preps = NoPreps

\* Session.__init__ with the caches as earlier runs left them.
Init ==
    /\ now = 0
    /\ InitLoaded({LoadedStatus})
    /\ fd_mtime = 0
    /\ fetchLog = <<>>
    /\ lastHealth = NoHealthCall
    /\ InitCheckerIdle
    /\ async_session = "None"
    /\ pools = 0
    /\ etag_cache \in { [u \in URLs |-> None],
                        [u \in URLs |-> IF u = "u1" THEN
                            Some(ETagCacheEntry("v1", PriorResponse(u), "86400"))
                                        ELSE None] }
    /\ hookReady \in BOOLEAN
    /\ issue = NoIssue
    /\ task = [t \in Tasks |-> NoTask]
    /\ completed = <<>>
    /\ preps = NoPreps

\* The requests a caller may hand to issue.
IssueRequests ==
    { Request(TRUE, "u1", "/o/", NoneId, NoneId),
      Request(TRUE, "u2", "/d/", 1, NoneId),
      Request(TRUE, "u2", "/o/", 1, NoneId),
      Request(FALSE, "u1", "/o/", NoneId, NoneId) }

\* Line 117: only the first element is tested.
IssueRejects(requests) == ~requests[1].prepared

\* A variant of line 122 that creates a pool on every issue.
CreatesPoolEveryIssue == TRUE

\* Line 122: the pool is created when the session has none.
CreatesPool == async_session = "None"

\* Session.issue(requests) up to its await, for a list of requests of the
\* given kinds: lines 117-126.
IssueOf(kinds) ==
    /\ issue.pc = "idle"
    /\ \E requests \in [Tasks -> kinds] :
         IF IssueRejects(requests)
         THEN /\ issue' = [issue EXCEPT !.pc = "raised", !.round = @ + 1,
                                         !.requests = requests, !.err = "ValueError"]
              /\ UNCHANGED <<async_session, pools, task, call>>
         ELSE /\ async_session' = "ClientSession"
              /\ pools' = IF CreatesPool THEN pools + 1 ELSE pools
              /\ task' = [t \in Tasks |-> [NoTask EXCEPT !.pc = "new"]]
              /\ call' = [t \in Tasks |-> [IdleCall EXCEPT !.req = requests[t]]]
              /\ issue' = [issue EXCEPT !.pc = "running", !.round = @ + 1,
                                         !.requests = requests]
    /\ UNCHANGED <<now, preps, healthVars, raise_flag, cache, done,
                   etag_cache, hookReady, completed>>

Issue == IssueOf(IssueRequests)

\* The locals of the checker end with its call: the task keeps the verdict.
Verdict(c) ==
    IF c.pc = "done" THEN [IdleCall EXCEPT !.pc = "done", !.req = c.req, !.out = c.out,
                                           !.value = c.value]
    ELSE c

Finished(t, tk) == IF tk.pc = "done" THEN Append(completed, t) ELSE completed

\* Task t runs for the first time: the checker (raise_flag left at its default)
\* up to its first suspension, and on if it did not suspend.  Tasks start in
\* the order they were created.
TaskStart(t) ==
    /\ task[t].pc = "new"
    /\ \A u \in Tasks : u < t => task[u].pc # "new"
    /\ \E f \in FetchChoices :
         LET req == call[t].req
             h == EndpointCall(req.endpoint, f)
             res == CheckRequest([call[t] EXCEPT !.flag = FALSE], h)
             tk == IF res.c.pc = "done" THEN AfterValidation(task[t], res.c)
                   ELSE [task[t] EXCEPT !.pc = "lookup"]
         IN  /\ ApplyEndpointCall(req.endpoint, h)
             /\ raise_flag' = FALSE
             /\ call' = [call EXCEPT ![t] = Verdict(res.c)]
             /\ cache' = res.cache
             /\ task' = [task EXCEPT ![t] = tk]
             /\ completed' = Finished(t, tk)
    /\ UNCHANGED <<now, preps, done, async_session, pools, etag_cache, hookReady, issue>>

\* The remote answers the confirming lookup of task t.
TaskLookup(t) ==
    /\ task[t].pc = "lookup"
    /\ call[t].tried < MaxLookups
    /\ \E r \in LookupReplies :
         LET res == CheckTypeIdReply(call[t], r)
             tk == IF res.c.pc = "done" THEN AfterValidation(task[t], res.c)
                   ELSE task[t]
         IN  /\ call' = [call EXCEPT ![t] = Verdict(res.c)]
             /\ cache' = res.cache
             /\ task' = [task EXCEPT ![t] = tk]
             /\ completed' = Finished(t, tk)
    /\ UNCHANGED <<now, preps, healthVars, raise_flag, done, async_session, pools,
                   etag_cache, hookReady, issue>>

\* The transport answers the request task t sent.
TaskSend(t) ==
    /\ task[t].pc = "send"
    /\ \E r \in Replies(call[t].req) :
         LET res == AfterSend(t, task[t], call[t].req, r)
         IN  /\ task' = [task EXCEPT ![t] = res.tk]
             /\ etag_cache' = res.etag
             /\ completed' = Finished(t, res.tk)
    /\ UNCHANGED <<now, preps, healthVars, checkerVars, async_session, pools, hookReady, issue>>

Failed(t) == task[t].pc = "done" /\ task[t].res.kind = "raise"

\* A variant of line 128 that hands the results back as the tasks finished.
ResultsAsCompleted == [i \in Tasks |-> task[completed[i]].res.resp]

\* Line 128: the results of the tasks, in the order of the tasks.
Results == [t \in Tasks |-> task[t].res.resp]

\* issue resumes after gather: every task has finished and none failed.
IssueReturn ==
    /\ issue.pc = "running"
    /\ \A t \in Tasks : task[t].pc = "done" /\ ~Failed(t)
    /\ issue' = [issue EXCEPT !.pc = "returned", !.result = Results]
    /\ UNCHANGED <<now, preps, healthVars, checkerVars, async_session, pools, etag_cache,
                   hookReady, task, completed>>

\* issue resumes after gather: a task has failed, and gather raises the
\* error of the first task that failed.  The other tasks are left as they
\* are: left records where each task was when issue raised.
IssueRaise ==
    /\ issue.pc = "running"
    /\ \E t \in Tasks : Failed(t)
    /\ LET first == CHOOSE i \in DOMAIN completed :
                        /\ Failed(completed[i])
                        /\ \A j \in DOMAIN completed : Failed(completed[j]) => i <= j
       IN  issue' = [issue EXCEPT !.pc = "raised", !.err = task[completed[first]].res.err,
                                  !.left = [t \in Tasks |-> task[t].pc]]
    /\ UNCHANGED <<now, preps, healthVars, checkerVars, async_session, pools, etag_cache,
                   hookReady, task, completed>>

\* Session.prepare_request(request): lines 97-106.
PrepareRequest ==
    /\ \E url \in URLs, given \in BOOLEAN :
          preps' = [url |-> url, given |-> given, line |-> ETagGet(etag_cache, url),
                    header |-> prepare_request(url, given, "own")]
    /\ UNCHANGED <<now, healthVars, checkerVars, async_session, pools, etag_cache,
                   hookReady, issue, task, completed>>

Next ==
    \/ Issue
    \/ \E t \in Tasks : TaskStart(t)
    \/ \E t \in Tasks : TaskLookup(t)
    \/ \E t \in Tasks : TaskSend(t)
    \/ IssueReturn
    \/ IssueRaise

Spec == Init /\ [][Next]_vars

\* The requests of the sessions that call issue again and again.
PoolRequests ==
    { Request(TRUE, "u1", "/o/", NoneId, NoneId),
      Request(FALSE, "u1", "/o/", NoneId, NoneId) }

IssuePool == IssueOf(PoolRequests)

\* The caller has the result, or the error, of issue and all tasks have
\* ended: the session is ready for the next call of issue.
Reissue ==
    /\ issue.pc \in {"returned", "raised"}
    /\ issue.round < MaxIssues
    /\ \A t \in Tasks : task[t].pc \in {"none", "done"}
    /\ issue' = [NoIssue EXCEPT !.round = issue.round]
    /\ task' = [t \in Tasks |-> NoTask]
    /\ call' = [t \in Tasks |-> IdleCall]
    /\ completed' = <<>>
    /\ UNCHANGED <<now, preps, healthVars, raise_flag, cache, done, async_session,
                   pools, etag_cache, hookReady>>

\* One session, issue called up to MaxIssues times.
NextPool ==
    \/ IssuePool
    \/ \E t \in Tasks : TaskStart(t)
    \/ \E t \in Tasks : TaskSend(t)
    \/ IssueReturn
    \/ IssueRaise
    \/ Reissue

SpecPool == Init /\ [][NextPool]_vars

\* The session with requests being prepared between the steps of issue.
NextPrepare ==
    \/ PrepareRequest
    \/ Next

SpecPrepare == Init /\ [][NextPrepare]_vars

----------------------------------------------------------------------------
(* The validation pipeline called directly, by concurrent callers          *)

\* The requests the callers validate: to an endpoint that is down; with a
\* type_id the reference data accepts in kwargs and another in params;
\* without the type_id the endpoint requires; without the type_id the
\* endpoint leaves optional; with a type_id the endpoint does not declare;
\* with a type_id that is not published.
CheckRequests ==
    { Request(TRUE, "", "/d/", 1, NoneId), Request(TRUE, "", "/o/", 1, 2),
      Request(TRUE, "", "/t/", NoneId, NoneId), Request(TRUE, "", "/o/", NoneId, NoneId),
      Request(TRUE, "", "/n/", 1, NoneId), Request(TRUE, "", "/t/", NoneId, 2) }

InitCheck ==
    /\ now = 0
    /\ InitLoaded({LoadedStatus})
    /\ fd_mtime = 0
    /\ fetchLog = <<>>
    /\ lastHealth = NoHealthCall
    /\ InitCheckerIdle
    /\ InitSessionIdle

\* await checker(req, raise_flag): lines 107-112 and __check_request up to its
\* first suspension.
FinishedCall == [IdleCall EXCEPT !.pc = "finished"]

\* A finished call keeps no state: its outcome is recorded in done.
Retire(t, c) ==
    IF c.pc = "done"
    THEN call' = [call EXCEPT ![t] = FinishedCall] /\ done' = Outcome(c)
    ELSE call' = [call EXCEPT ![t] = c] /\ done' = done

CheckStart(t) ==
    /\ call[t].pc = "idle"
    /\ \A u \in Calls : u < t => call[u].pc # "idle"
    /\ \E req \in CheckRequests, flag \in BOOLEAN, f \in FetchChoices :
         LET h == EndpointCall(req.endpoint, f)
             res == CheckRequest([call[t] EXCEPT !.req = req, !.flag = flag], h)
         IN  /\ ApplyEndpointCall(req.endpoint, h)
             /\ raise_flag' = flag
             /\ Retire(t, res.c)
             /\ cache' = res.cache
    /\ UNCHANGED <<now, sessionVars>>

\* The remote answers the confirming lookup of call t.
CheckLookup(t) ==
    /\ call[t].pc = "lookup"
    /\ call[t].tried < MaxLookups
    /\ \E r \in LookupReplies :
         LET res == CheckTypeIdReply(call[t], r)
         IN  /\ Retire(t, res.c)
             /\ cache' = res.cache
    /\ UNCHANGED <<now, healthVars, raise_flag, sessionVars>>

\* The instants at which the clock is read: within and past the 30 days.
CheckInstants == {0, 1, CheckExpires + 1}

TickCheck ==
    /\ \E at \in CheckInstants :
          /\ at > now
          /\ now' = at
    /\ UNCHANGED <<healthVars, checkerVars, sessionVars>>

NextCheck ==
    \/ \E t \in Calls : CheckStart(t)
    \/ \E t \in Calls : CheckLookup(t)
    \/ TickCheck

SpecCheck == InitCheck /\ [][NextCheck]_vars

----------------------------------------------------------------------------
(* The endpoint health cache on its own                                    *)

InitHealth ==
    /\ now = 0
    /\ InitFile(StatusDocs)
    /\ fd_mtime = 0
    /\ fetchLog = <<>>
    /\ lastHealth = NoHealthCall
    /\ InitCheckerIdle
    /\ InitSessionIdle

HealthSteps == {30, RefreshInterval + 1}

TickHealth ==
    /\ \E d \in HealthSteps :
          /\ now + d <= HealthHorizon
          /\ now' = now + d
    /\ UNCHANGED <<healthVars, checkerVars, sessionVars>>

HealthCall ==
    /\ \E endpoint \in Endpoints, f \in FetchChoices :
          ApplyEndpointCall(endpoint, EndpointCall(endpoint, f))
    /\ UNCHANGED <<now, checkerVars, sessionVars>>

NextHealth == TickHealth \/ HealthCall

SpecHealth == InitHealth /\ [][NextHealth]_vars

----------------------------------------------------------------------------
(* Properties of Session.issue (specification Spec)                         *)

\* The verdict the checker returned for the request of task t.
Validated(t) == call[t].pc = "done" /\ call[t].out = "return"

Invalid(t) == Validated(t) /\ call[t].value # "True"

\* Task t finished with a response built from the transport's answer.
Built(t) == task[t].pc = "done" /\ task[t].status \notin {0, 304}

\* C1: when issue returns, its result has one response per input request and
\* its i-th element is the response the i-th task produced, whatever the
\* order in which the tasks finished.
C1_OrderPreserved ==
    issue.pc = "returned" =>
        /\ DOMAIN issue.result = DOMAIN issue.requests
        /\ \A i \in Tasks :
              /\ task[i].res.kind = "return"
              /\ issue.result[i] = task[i].res.resp
              /\ Built(i) => issue.result[i].request_info = i

\* C1 witness: issue has returned although the tasks finished in the reverse
\* of the order of submission, with responses that tell the tasks apart.
C1_ReverseCompletion ==
    /\ issue.pc = "returned"
    /\ \A i \in DOMAIN completed : completed[i] = NReq + 1 - i
    /\ \A i \in Tasks : Built(i)

\* C2: a list holding an unprepared request at any position makes issue fail
\* at once with the misuse error, and nothing is dispatched: no pool, no
\* task, no validation, no send.
C2_UnpreparedRejected ==
    (issue.pc # "idle" /\ \E i \in Tasks : ~issue.requests[i].prepared) =>
        /\ issue.pc = "raised"
        /\ issue.err = "ValueError"
        /\ async_session = "None"
        /\ \A t \in Tasks : task[t].pc = "none" /\ call[t].pc = "idle"

\* The first task that failed, as gather sees it.
FirstFailed ==
    LET first == CHOOSE i \in DOMAIN completed :
                     /\ Failed(completed[i])
                     /\ \A j \in DOMAIN completed : Failed(completed[j]) => i <= j
    IN  completed[first]

\* Task t was answered 304 and the conditional cache had no entry for its url.
Missed(t) == task[t].status = 304 /\ task[t].line = "miss"

C4_OnlyOkCached ==
    /\ \A t \in Tasks :
          /\ Built(t) => /\ task[t].res.kind = "return"
                         /\ task[t].writes = IF ok(task[t].res.resp) THEN 1 ELSE 0
          /\ ~Built(t) => task[t].writes = 0
    /\ \A u \in URLs : etag_cache[u] # None => ok(etag_cache[u][1].response)

\* C4 witness: one task built an ok response and wrote it, another built a
\* response that is not ok and wrote nothing.
C4_OkAndNotOk ==
    \E t, u \in Tasks :
        /\ Built(t) /\ ok(task[t].res.resp) /\ task[t].writes = 1
        /\ etag_cache[task[t].res.resp.url] # None
        /\ Built(u) /\ ~ok(task[u].res.resp) /\ task[u].writes = 0

\* C18: the step in which a task is answered 304 and finds an entry for its
\* url returns the response stored in that entry, and writes nothing to the
\* cache; such a task built no response.
C18_HitReturnsStored ==
    [][\A t \in Tasks :
          (task[t].line = "" /\ task'[t].line = "hit") =>
              LET cache_line == etag_cache[call[t].req.url]
              IN  /\ cache_line # None
                  /\ task'[t].status = 304
                  /\ task'[t].pc = "done"
                  /\ task'[t].res = Returned(cache_line[1].response)
                  /\ task'[t].writes = 0
                  /\ etag_cache' = etag_cache]_vars

\* C18 witness: a task answered 304 returned the response another task of
\* the batch had built and stored, and wrote nothing.
C18_HitOnFreshEntry ==
    \E t, u \in Tasks :
        /\ t # u
        /\ task[t].status = 304 /\ task[t].line = "hit"
        /\ Built(u) /\ task[u].writes = 1
        /\ task[t].res = Returned(task[u].res.resp)
        /\ task[t].writes = 0

\* C14: a request prepared without a header of its own gets as If-None-Match
\* the etag string of the cache entry of its url, or "" when there is none.
C14_HeaderIsEtag ==
    (preps.url # "" /\ ~preps.given) =>
        preps.header = HeaderStr(IF preps.line = None THEN "" ELSE preps.line[1].etag)

C22_WrittenUnderLookupKey ==
    \A t \in Tasks :
        (task[t].pc = "done" /\ task[t].writes > 0) =>
            LET u == issue.requests[t].url
                resp == task[t].res.resp
            IN  /\ resp.url = u
                /\ ETagGet(etag_cache, u) # None
                /\ \/ ETagGet(etag_cache, u)[1].response = resp
                   \/ \E o \in Tasks \ {t} :
                         /\ task[o].writes > 0
                         /\ ETagGet(etag_cache, u)[1].response = task[o].res.resp

\* C23: issue has returned or raised only when every task of the batch has
\* finished; when it raised the fatal error of a 304 without cache entry, a
\* task that had not yet sent did not send afterwards, and a task that had
\* not finished did not write to the conditional cache afterwards.
C23_ControlBackAfterAllTasks ==
    /\ issue.pc \in {"returned", "raised"} =>
          \A t \in Tasks : task[t].pc \in {"none", "done"}
    /\ (issue.pc = "raised" /\ issue.err = "NotImplementedError") =>
          \A t \in Tasks :
              /\ issue.left[t] \in {"new", "lookup"} => task[t].sends = 0
              /\ issue.left[t] # "done" => task[t].writes = 0

----------------------------------------------------------------------------
(* Properties of the validation pipeline (specification SpecCheck)          *)

\* The last finished call failed: on the endpoint, or on its type_id.
EndpointFailed == done.pc = "done" /\ done.health = "False"

ParameterFailed == done.pc = "done" /\ done.checked /\ done.valid # "True"

\* C5: a call for an endpoint whose health entry is false ends with
\* EndpointDownError, raised when strict and reported as invalid otherwise,
\* and runs no parameter check: check_type_id is not invoked, so its cache
\* is not consulted, its body does not run and nothing is looked up remotely.
C5_UnhealthyShortCircuits ==
    /\ EndpointFailed =>
          /\ ~done.checked
          /\ done.seen = None
          /\ ~done.bodyRan
          /\ ~done.looked
          /\ done.flag => (done.out = "raise" /\ done.value = "EndpointDownError")
          /\ ~done.flag => (done.out = "return" /\ done.value = "False")
    /\ \A t \in Calls : call[t].health = "False" =>
          (call[t].pc # "lookup" /\ ~call[t].checked)

\* C5 witness: a strict call for a type_id the reference data accepts, to an
\* endpoint that is down, raised EndpointDownError.
C5_DownRaised ==
    /\ EndpointFailed
    /\ ResolveTypeId(done.req) = 1
    /\ done.flag
    /\ done.out = "raise"
    /\ done.value = "EndpointDownError"

\* C6: a call that finds an unexpired cached result for its type_id, whatever
\* that result is, returns it from check_type_id without running the body
\* and without a remote lookup.
C6_CachedResultReused ==
    (done.pc = "done" /\ done.checked /\ done.seen # None) =>
        /\ ~done.bodyRan
        /\ ~done.looked
        /\ done.valid = done.seen[1]

\* C8: a failed validation ends as the caller's own mode demands: strict, the
\* specific error is raised; non-strict, nothing is raised and the call
\* returns the boolean that reports the request invalid.
C8_ModeDecidesOutcome ==
    (EndpointFailed \/ ParameterFailed) =>
        /\ done.flag =>
              /\ done.out = "raise"
              /\ done.value = IF EndpointFailed THEN "EndpointDownError"
                              ELSE "InvalidRequestError"
        /\ ~done.flag => (done.out = "return" /\ done.value = "False")

\* The last finished call was suspended in the confirming lookup, where other
\* calls could run, and its type_id was then found invalid.
FailedAfterSuspension == done.pc = "done" /\ done.looked /\ done.valid # "True"

\* C21: a call that fails after having been suspended among other calls ends
\* as its own raise_flag argument says, whatever flags the other calls
\* passed: strict, it raises InvalidRequestError; non-strict, it returns False.
C21_OwnFlagDecides ==
    FailedAfterSuspension =>
        IF done.flag
        THEN done.out = "raise" /\ done.value = "InvalidRequestError"
        ELSE done.out = "return" /\ done.value = "False"

\* C24: when the remote answers 502 to all three confirming attempts of a
\* type_id the reference data accepts, check_type_id returns that verdict,
\* True, and the decorator stores it under the key of the type_id, to expire
\* in 30 days.
C24_TransientKeepsVerdict ==
    [][\A t \in Calls :
          (call[t].pc = "lookup" /\ call'[t].pc = "finished" /\ done'.all502) =>
              /\ done'.valid = "True"
              /\ done'.out = "return" /\ done'.value = "True"
              /\ cache'[make_cache_key(ResolveTypeId(call[t].req))] =
                     Some([value |-> "True", expires |-> now + CheckExpires])]_vars

\* C24 witness: a call for the published type 1 got 502 three times, was
\* answered valid, and the cache holds True for type 1.
C24_AllTransient ==
    /\ done.pc = "done"
    /\ done.all502
    /\ ResolveTypeId(done.req) = 1
    /\ done.valid = "True"
    /\ CachedResult(cache, make_cache_key(1)) = Some("True")

\* The last finished call was for a healthy endpoint.
Healthy == done.pc = "done" /\ done.health = "True"

\* C15: when kwargs and params both hold a type_id and they differ, the one
\* of params is the one validated.
C15_ParamsTakePrecedence ==
    (/\ done.pc = "done" /\ done.checked
     /\ done.req.kwargs # NoneId /\ done.req.params # NoneId
     /\ done.req.kwargs # done.req.params) =>
        /\ ResolveTypeId(done.req) = done.req.params
        /\ (done.req.params \notin DOMAIN invTypes \/ ~invTypes[done.req.params]) =>
               done.valid = "False"

\* C16: on a healthy endpoint, an optional type_id that is absent passes
\* without check_type_id, and a type_id that is supplied or required is
\* always handed to check_type_id.
C16_CheckedUnlessOptionalAbsent ==
    Healthy =>
        LET m == MetadataTypeId(done.req.endpoint)
            supplied == done.req.kwargs # NoneId \/ done.req.params # NoneId
        IN  /\ (m = "optional" /\ ~supplied) =>
                   (~done.checked /\ done.out = "return" /\ done.value = "True")
            /\ (supplied \/ m = "required") => done.checked

\* C16, amended: on a healthy endpoint that declares type_id, check_type_id is
\* invoked unless the type_id is optional and absent, and its result decides
\* the validity; on an endpoint that does not declare type_id it is never
\* invoked, supplied or not.  Without the check the request is valid.
C16_CheckedWhenDeclared ==
    Healthy =>
        LET m == MetadataTypeId(done.req.endpoint)
            supplied == done.req.kwargs # NoneId \/ done.req.params # NoneId
        IN  /\ done.checked <=> (m # "undeclared" /\ (supplied \/ m = "required"))
            /\ ~done.checked => (done.out = "return" /\ done.value = "True")
            /\ (done.checked /\ done.valid = "True") =>
                   (done.out = "return" /\ done.value = "True")
            /\ (done.checked /\ done.valid # "True") =>
                   \/ done.out = "raise" /\ done.value = "InvalidRequestError"
                   \/ done.out = "return" /\ done.value = "False"

\* C16 witness: a type_id supplied to a healthy endpoint that declares none
\* was not checked, and the call returned True.
C16_UndeclaredNotChecked ==
    /\ Healthy
    /\ MetadataTypeId(done.req.endpoint) = "undeclared"
    /\ done.req.kwargs # NoneId
    /\ ~done.checked
    /\ done.value = "True"

\* C17: a type_id the reference data rejects (no member, or not published)
\* is invalid, and no remote lookup is made for it.
C17_StaticRejectNoLookup ==
    /\ (/\ done.pc = "done" /\ done.checked
        /\ LET id == ResolveTypeId(done.req)
           IN  id \notin DOMAIN invTypes \/ ~invTypes[id]) =>
           (done.valid = "False" /\ ~done.looked)
    /\ \A t \in Calls : call[t].pc = "lookup" =>
           LET id == ResolveTypeId(call[t].req)
           IN  id \in DOMAIN invTypes /\ invTypes[id]

\* C17 witness: check_type_id ran for a member that is not published and
\* for a value that is no member, and rejected them without lookup.
C17_UnpublishedRejected ==
    /\ done.pc = "done" /\ done.checked /\ done.bodyRan
    /\ ResolveTypeId(done.req) = 2
    /\ done.valid = "False" /\ ~done.looked
    /\ cache[make_cache_key(NoneId)] # None

\* C13: one confirming lookup makes at most Attempts remote attempts, and
\* only 502 answers are retried: while the lookup is still under way, every
\* answer so far was a 502.
C13_LookupBounded ==
    \A t \in Calls :
        /\ call[t].tried <= Attempts
        /\ call[t].pc = "lookup" => call[t].tried = Attempts - call[t].attempts

----------------------------------------------------------------------------
(* Properties of the endpoint health cache (specification SpecHealth)       *)

\* C7: two remote status fetches are never less than the refresh interval
\* apart, whatever the remote status document holds.
C7_NoRefreshWithinInterval ==
    Len(fetchLog) = 2 => fetchLog[2].at - fetchLog[1].at >= RefreshInterval

\* C7, amended: two remote status fetches are less than the refresh interval
\* apart only when the first left the health map empty (an empty status
\* document, or a fetch that failed before any map was loaded).
C7_NoRefreshOfLoadedMap ==
    (Len(fetchLog) = 2 /\ fetchLog[2].at - fetchLog[1].at < RefreshInterval) =>
        fetchLog[1].empty

\* C7 witness: a fetch left a map with entries, and a later call within the
\* refresh interval was answered from that map without fetching.
C7_LoadedMapReused ==
    /\ fetchLog # <<>>
    /\ ~fetchLog[Len(fetchLog)].empty
    /\ fetchLog[Len(fetchLog)].reused
    /\ now - fetchLog[Len(fetchLog)].at < RefreshInterval
    /\ ~IsEmpty(status_parsed)

\* C11: a health call whose remote fetch fails leaves the map and the file as
\* they were and raises nothing: it answers from the previous map.
C11_FailedFetchAbsorbed ==
    lastHealth.failed => (lastHealth.kept /\ lastHealth.raised = "")

\* C12: a health call that finds the map empty, or loaded or fetched more
\* than the refresh interval ago, fetches the remote status document.
C12_StaleMapRefreshed ==
    (lastHealth.called /\ (lastHealth.empty \/ lastHealth.stale)) => lastHealth.fetched

\* C20: after a health call that obtained the remote document, the status
\* file holds exactly one document, equal to the map now in use.
C20_FileReplaced ==
    (lastHealth.fetched /\ ~lastHealth.failed) =>
        (status_parsed # None /\ fd_file = <<status_parsed[1]>>)

====
